---- MODULE Spec2Model ----
(***************************************************************************)
(* The assignment status / notification engine of assignmentManager.js:    *)
(* Assignment, Observer, Student and ClassList, together with the timer    *)
(* queue of the JavaScript runtime (setTimeout / clearTimeout) that the    *)
(* engine schedules its auto-submit, auto-grade and release tasks on.      *)
(*                                                                         *)
(* Every handler runs to completion (one macrotask) and is one action.     *)
(* The handlers are written as operators on a "world" record               *)
(*   [a |-> assignmentStatuses, og |-> overallGrade, log |-> log]          *)
(* so that a handler that calls another one (sendReminder calls            *)
(* updateAssignmentStatus and submitAssignment, the auto-submit callback   *)
(* calls submitAssignment) is the composition the code performs.           *)
(***************************************************************************)
EXTENDS Integers, Sequences, FiniteSets, TLC

VARIABLES
    fullName,            \* Student.fullName, per student object
    assignmentStatuses,  \* Student.assignmentStatuses: sequence of Assignment records
    overallGrade,        \* Student.overallGrade, as the fraction [sum, n]; n = 0 is null
    students,            \* ClassList.students: the roster, a sequence of student objects
    releases,            \* releaseAssignmentsParallel calls still awaiting their tasks
    log,                 \* what Observer.notify has written, per student and assignment name
    budget,              \* number of calls from outside still to be explored
    last,                \* the handler that ran last: [op, s, n]
    returned             \* what the last call from outside returned: [kind, val]

vars == <<fullName, assignmentStatuses, overallGrade, students, releases, log, budget, last,
          returned>>

(***************************************************************************)
(* Bounds of the model and the sets the inputs are drawn from.             *)
(***************************************************************************)
MaxCalls == 4        \* calls from outside explored on one student (StudentSpec)
MaxClassCalls == 2   \* calls from outside explored on the whole class (Spec)
MaxGradeCalls == 2   \* calls from outside explored with every grade (GradeSpec)
MaxQueryCalls == 3   \* calls from outside explored with the getters (the query specs)
MaxNotifyCalls == 4  \* Observer.notify calls explored on their own (NotifySpec)

Students == {"s1", "s2"}
FullNames == {"Ada", "Bob"}
Names == {"HW1", "HW2"}

MaxGrade == 100      \* Math.floor(Math.random() * 101) draws 0..100
PassMark == 50       \* grade > 50 passes

\* grades the full engine is explored with: both sides of the pass mark
GradeSamples == {PassMark, PassMark + 1}
AllGrades == 0..MaxGrade

\* the values a caller may hand to updateAssignmentStatus as `grade`
Num(g) == [type |-> "number", val |-> g]
Undefined == [type |-> "undefined", val |-> 0]
NotANumber == [type |-> "string", val |-> 0]

\* the name lists handed to releaseAssignmentsParallel: empty, one name,
\* two names, one name twice
NameLists == {<<>>, <<"HW1">>, <<"HW1", "HW2">>, <<"HW1", "HW1">>}

(***************************************************************************)
(* Assignment                                                              *)
(***************************************************************************)
NoGrade == -1        \* this._grade = null

\* _workTimeoutId is "null", or the handle of an auto-submit timer that is
\* still "pending", or the handle of one that has "fired".  Every place that
\* creates an auto-submit timer clears the previous handle first, so the
\* handle's timer is the only auto-submit timer of the assignment that can be
\* pending.  gradeTimers counts the pending auto-grade timers: their handles
\* are stored nowhere.
NewAssignment(n) ==
    [assignmentName |-> n, status |-> "released", grade |-> NoGrade,
     graded |-> FALSE, workTimeoutId |-> "null", gradeTimers |-> 0]

\* setGrade with the pass mark itself passing
setGradeInclusive(a, g) ==
    [a EXCEPT !.grade = g, !.graded = TRUE,
              !.status = IF g >= PassMark THEN "Pass" ELSE "Fail"]

setGrade(a, g) ==
    [a EXCEPT !.grade = g, !.graded = TRUE,
              !.status = IF g > PassMark THEN "Pass" ELSE "Fail"]

(***************************************************************************)
(* Observer                                                                *)
(***************************************************************************)
\* the status looked at before the reminder flag
MessageStatusFirst(status, isReminder) ==
    IF status = "released" THEN "released"
    ELSE IF status = "working" THEN "working"
    ELSE IF status = "submitted" THEN "submitted"
    ELSE IF status = "Pass" THEN "passed"
    ELSE IF status = "Fail" THEN "failed"
    ELSE IF isReminder \/ status = "final reminder" THEN "final reminder"
    ELSE "status updated"

Message(status, isReminder) ==
    IF isReminder \/ status = "final reminder" THEN "final reminder"
    ELSE IF status = "released" THEN "released"
    ELSE IF status = "working" THEN "working"
    ELSE IF status = "submitted" THEN "submitted"
    ELSE IF status = "Pass" THEN "passed"
    ELSE IF status = "Fail" THEN "failed"
    ELSE "status updated"

\* Observer.notify(student, assignment, isReminder) for the assignment at index i
notify(w, s, i, isReminder) ==
    LET a == w.a[s][i]
    IN [w EXCEPT !.log[s][a.assignmentName] =
                     Append(@, Message(a.status, isReminder))]

(***************************************************************************)
(* Student                                                                 *)
(***************************************************************************)
\* index of the first assignment with that name, 0 for null
findAssignment(asgs, n) ==
    IF \E i \in 1..Len(asgs) : asgs[i].assignmentName = n
    THEN CHOOSE i \in 1..Len(asgs) :
             /\ asgs[i].assignmentName = n
             /\ \A j \in 1..(i - 1) : asgs[j].assignmentName # n
    ELSE 0

RECURSIVE SumGrades(_)
SumGrades(asgs) ==
    IF asgs = <<>> THEN 0 ELSE Head(asgs).grade + SumGrades(Tail(asgs))

\* the mean taken over every assignment, graded or not
recalculateOverallGradeOverAll(w, s) ==
    LET graded == SelectSeq(w.a[s], LAMBDA a : a.grade # NoGrade)
    IN IF Len(graded) = 0
       THEN [w EXCEPT !.og[s] = [sum |-> 0, n |-> 0]]
       ELSE [w EXCEPT !.og[s] = [sum |-> SumGrades(graded), n |-> Len(w.a[s])]]

recalculateOverallGrade(w, s) ==
    LET graded == SelectSeq(w.a[s], LAMBDA a : a.grade # NoGrade)
    IN IF Len(graded) = 0
       THEN [w EXCEPT !.og[s] = [sum |-> 0, n |-> 0]]
       ELSE [w EXCEPT !.og[s] = [sum |-> SumGrades(graded), n |-> Len(graded)]]

\* the creation without the lookup
ensureAssignmentAlways(w, s, n) ==
    LET w1 == [w EXCEPT !.a[s] = Append(@, NewAssignment(n))]
    IN notify(w1, s, Len(w1.a[s]), FALSE)

\* the lazy creation every mutator starts with
ensureAssignment(w, s, n) ==
    IF findAssignment(w.a[s], n) # 0 THEN w
    ELSE LET w1 == [w EXCEPT !.a[s] = Append(@, NewAssignment(n))]
         IN notify(w1, s, Len(w1.a[s]), FALSE)

\* any grade that is given taken as a grade, a value that is no number
\* reading as 0
updateAssignmentStatusUntyped(w, s, n, grade) ==
    LET w1 == ensureAssignment(w, s, n)
        i == findAssignment(w1.a[s], n)
    IN IF grade.type # "undefined"
       THEN LET w2 == [w1 EXCEPT !.a[s][i] = setGrade(@, grade.val)]
            IN recalculateOverallGrade(notify(w2, s, i, FALSE), s)
       ELSE w1

updateAssignmentStatus(w, s, n, grade) ==
    LET w1 == ensureAssignment(w, s, n)
        i == findAssignment(w1.a[s], n)
    IN IF grade.type = "number"
       THEN LET w2 == [w1 EXCEPT !.a[s][i] = setGrade(@, grade.val)]
            IN recalculateOverallGrade(notify(w2, s, i, FALSE), s)
       ELSE w1

startWorking(w, s, n) ==
    LET w1 == ensureAssignment(w, s, n)
        i == findAssignment(w1.a[s], n)
        w2 == notify([w1 EXCEPT !.a[s][i].status = "working"], s, i, FALSE)
    IN \* clearTimeout of the previous handle, then the new auto-submit timer
       [w2 EXCEPT !.a[s][i].workTimeoutId = "pending"]

Done == {"submitted", "Pass", "Fail"}
Outstanding == {"released", "working", "final reminder"}

\* submitAssignment whose no-op test forgets the graded statuses
submitAssignmentRegrading(w, s, n) ==
    LET w1 == ensureAssignment(w, s, n)
        i == findAssignment(w1.a[s], n)
    IN IF w1.a[s][i].status = "submitted" THEN w1
       ELSE LET w2 == [w1 EXCEPT !.a[s][i].workTimeoutId = "null",
                                 !.a[s][i].status = "submitted"]
            IN [notify(w2, s, i, FALSE) EXCEPT !.a[s][i].gradeTimers = @ + 1]

submitAssignment(w, s, n) ==
    LET w1 == ensureAssignment(w, s, n)
        i == findAssignment(w1.a[s], n)
    IN IF w1.a[s][i].status \in Done THEN w1
       ELSE LET w2 == [w1 EXCEPT !.a[s][i].workTimeoutId = "null",
                                 !.a[s][i].status = "submitted"]
            IN [notify(w2, s, i, FALSE) EXCEPT !.a[s][i].gradeTimers = @ + 1]

\* an auto-submit callback that submits whatever the status is by then
autoSubmitCallbackForced(w, s, i) ==
    LET w1 == [w EXCEPT !.a[s][i].workTimeoutId = "null",
                        !.a[s][i].status = "submitted"]
    IN [notify(w1, s, i, FALSE) EXCEPT !.a[s][i].gradeTimers = @ + 1]

\* an auto-submit callback that never submits
autoSubmitCallbackIdle(w, s, i) == w

\* the callback startWorking schedules, for the assignment at index i
\* the callback taken to act for enrolled students only
autoSubmitCallbackEnrolled(w, s, i) ==
    LET a == w.a[s][i]
    IN IF /\ a.status \in {"working", "released", "final reminder"}
          /\ \E k \in 1..Len(students) : students[k] = s
       THEN submitAssignment(w, s, a.assignmentName)
       ELSE w

autoSubmitCallback(w, s, i) ==
    LET a == w.a[s][i]
    IN IF a.status \in {"working", "released", "final reminder"}
       THEN submitAssignment(w, s, a.assignmentName)
       ELSE w

\* an auto-grade callback without the test of the graded flag
autoGradeCallbackRegrading(w, s, i, g) ==
    LET w1 == [w EXCEPT !.a[s][i] = setGrade(@, g)]
    IN recalculateOverallGrade(notify(w1, s, i, FALSE), s)

\* the callback submitAssignment schedules; g is the grade Math.random draws
autoGradeCallback(w, s, i, g) ==
    IF w.a[s][i].graded THEN w
    ELSE LET w1 == [w EXCEPT !.a[s][i] = setGrade(@, g)]
         IN recalculateOverallGrade(notify(w1, s, i, FALSE), s)

\* The getters give the world they leave and the value they return.
NotAssigned == "Hasn't been assigned"

\* the getter taken to create the assignment it is asked for, as the
\* mutators do
getAssignmentStatusCreating(w, s, n) ==
    LET w1 == ensureAssignment(w, s, n)
        i == findAssignment(w1.a[s], n)
    IN [w |-> w1, ret |-> w1.a[s][i].status]

getAssignmentStatus(w, s, n) ==
    LET i == findAssignment(w.a[s], n)
    IN [w |-> w, ret |-> IF i = 0 THEN NotAssigned ELSE w.a[s][i].status]

getGrade(w, s) ==
    LET w1 == recalculateOverallGrade(w, s)
    IN [w |-> w1, ret |-> w1.og[s]]

(***************************************************************************)
(* ClassList                                                               *)
(***************************************************************************)
Includes(seq, x) == \E i \in 1..Len(seq) : seq[i] = x

\* the student pushed without the test for presence
addStudentAlways(roster, s) == Append(roster, s)

addStudent(roster, s) ==
    IF ~Includes(roster, s) THEN Append(roster, s) ELSE roster

removeStudent(roster, name) ==
    SelectSeq(roster, LAMBDA s : fullName[s] # name)

\* every student holding the assignment taken as outstanding
findOutstandingAssignmentsHeld(w, roster, n) ==
    LET hit(s) == findAssignment(w.a[s], n) # 0
        RECURSIVE collect(_)
        collect(r) == IF r = <<>> THEN <<>>
                      ELSE (IF hit(Head(r)) THEN <<fullName[Head(r)]>> ELSE <<>>)
                           \o collect(Tail(r))
    IN collect(roster)

\* findOutstandingAssignments(assignmentName), the branch with a name
findOutstandingAssignments(w, roster, n) ==
    LET hit(s) == LET i == findAssignment(w.a[s], n)
                  IN i # 0 /\ w.a[s][i].status \notin Done
        RECURSIVE collect(_)
        collect(r) == IF r = <<>> THEN <<>>
                      ELSE (IF hit(Head(r)) THEN <<fullName[Head(r)]>> ELSE <<>>)
                           \o collect(Tail(r))
    IN collect(roster)

\* findOutstandingAssignments(), the branch without a name
findOutstandingAny(w, roster) ==
    LET hit(s) == \E i \in 1..Len(w.a[s]) :
                      w.a[s][i].status \in {"released", "working", "final reminder"}
        RECURSIVE collect(_)
        collect(r) == IF r = <<>> THEN <<>>
                      ELSE (IF hit(Head(r)) THEN <<fullName[Head(r)]>> ELSE <<>>)
                           \o collect(Tail(r))
    IN collect(roster)

\* the reminder without the forced submission
remindStudentOnly(w, s, outstanding, n) ==
    IF ~Includes(outstanding, fullName[s]) THEN w
    ELSE LET w1 == IF findAssignment(w.a[s], n) = 0
                   THEN updateAssignmentStatus(w, s, n, Undefined)
                   ELSE w
             i == findAssignment(w1.a[s], n)
             w2 == [w1 EXCEPT !.a[s][i].status = "final reminder"]
             w3 == notify(w2, s, i, TRUE)
         IN [w3 EXCEPT !.a[s][i].workTimeoutId = "null"]

\* the body of sendReminder's forEach for one student
remindStudent(w, s, outstanding, n) ==
    IF ~Includes(outstanding, fullName[s]) THEN w
    ELSE LET w1 == IF findAssignment(w.a[s], n) = 0
                   THEN updateAssignmentStatus(w, s, n, Undefined)
                   ELSE w
             i == findAssignment(w1.a[s], n)
             w2 == [w1 EXCEPT !.a[s][i].status = "final reminder"]
             w3 == notify(w2, s, i, TRUE)
             w4 == [w3 EXCEPT !.a[s][i].workTimeoutId = "null"]
         IN submitAssignment(w4, s, n)

RECURSIVE remindAll(_, _, _, _)
remindAll(w, roster, outstanding, n) ==
    IF roster = <<>> THEN w
    ELSE remindAll(remindStudent(w, Head(roster), outstanding, n),
                   Tail(roster), outstanding, n)

\* the reminder taken to reach the first student of the roster only
sendReminderFirst(w, roster, n) ==
    IF roster = <<>> THEN w
    ELSE remindStudent(w, Head(roster),
                       findOutstandingAssignments(w, roster, n), n)

sendReminder(w, roster, n) ==
    remindAll(w, roster, findOutstandingAssignments(w, roster, n), n)

\* the student of every task taken to be the first of the roster
TaskStudentFirst(r, k) == r.roster[1]

\* A releaseAssignmentsParallel call in flight: the name list, the roster at
\* call time and the number of its setTimeout(0) tasks that have run.  The
\* tasks are queued name by name, student by student, and run in that order.
NewRelease(names, roster) == [names |-> names, roster |-> roster, ran |-> 0]
TaskCount(r) == Len(r.names) * Len(r.roster)
TaskName(r, k) == r.names[(k \div Len(r.roster)) + 1]
TaskStudent(r, k) == r.roster[(k % Len(r.roster)) + 1]

(***************************************************************************)
(* The state machine                                                       *)
(***************************************************************************)
World == [a |-> assignmentStatuses, og |-> overallGrade, log |-> log]

SetWorld(w) ==
    /\ assignmentStatuses' = w.a
    /\ overallGrade' = w.og
    /\ log' = w.log

\* the handler op ran, with its student argument s (if any) and its name
\* argument n (an assignment name; for removeStudent the full name)
Ran(op, s, n) == [op |-> op, s |-> s, n |-> n]

\* what a call returned: nothing, a status, a grade or a list of full names
Return(kind, val) == [kind |-> kind, val |-> val]
NoReturn == Return("undefined", "")

Fresh ==
    /\ assignmentStatuses = [s \in Students |-> <<>>]
    /\ overallGrade = [s \in Students |-> [sum |-> 0, n |-> 0]]
    /\ releases = <<>>
    /\ log = [s \in Students |-> [n \in Names |-> <<>>]]
    /\ last = Ran("", "", "")
    /\ returned = NoReturn

\* the rosters addStudent can build: no student object twice
Rosters ==
    {r \in UNION {[1..k -> Students] : k \in 0..Cardinality(Students)} :
        \A i, j \in 1..Len(r) : r[i] = r[j] => i = j}

\* the class under some roster; the second student may share the first one's name
Init ==
    /\ fullName \in {f \in [Students -> FullNames] : f["s1"] = "Ada"}
    /\ students \in Rosters
    /\ budget = MaxClassCalls
    /\ Fresh

\* a call from outside, one of the calls the exploration is bounded to,
\* that returns v
Returns(v) == budget > 0 /\ budget' = budget - 1 /\ returned' = v
Called == Returns(NoReturn)

UpdateAssignmentStatus(s, n, grade) ==
    /\ Called
    /\ last' = Ran("updateAssignmentStatus", s, n)
    /\ SetWorld(updateAssignmentStatus(World, s, n, grade))
    /\ UNCHANGED <<fullName, students, releases>>

StartWorking(s, n) ==
    /\ Called
    /\ last' = Ran("startWorking", s, n)
    /\ SetWorld(startWorking(World, s, n))
    /\ UNCHANGED <<fullName, students, releases>>

SubmitAssignment(s, n) ==
    /\ Called
    /\ last' = Ran("submitAssignment", s, n)
    /\ SetWorld(submitAssignment(World, s, n))
    /\ UNCHANGED <<fullName, students, releases>>

\* an auto-submit timer fires: its handle is now that of a fired timer
AutoSubmitFire(s, i) ==
    /\ i \in 1..Len(assignmentStatuses[s])
    /\ assignmentStatuses[s][i].workTimeoutId = "pending"
    /\ last' = Ran("autoSubmit", s, assignmentStatuses[s][i].assignmentName)
    /\ SetWorld(autoSubmitCallback(
           [World EXCEPT !.a[s][i].workTimeoutId = "fired"], s, i))
    /\ UNCHANGED <<fullName, students, releases, budget, returned>>

\* an auto-grade timer fires
AutoGradeFire(s, i, g) ==
    /\ i \in 1..Len(assignmentStatuses[s])
    /\ assignmentStatuses[s][i].gradeTimers > 0
    /\ last' = Ran("autoGrade", s, assignmentStatuses[s][i].assignmentName)
    /\ SetWorld(autoGradeCallback(
           [World EXCEPT !.a[s][i].gradeTimers = @ - 1], s, i, g))
    /\ UNCHANGED <<fullName, students, releases, budget, returned>>

AddStudent(s) ==
    /\ Called
    /\ last' = Ran("addStudent", s, "")
    /\ students' = addStudent(students, s)
    /\ UNCHANGED <<fullName, assignmentStatuses, overallGrade, releases, log>>

RemoveStudent(s) ==
    /\ Called
    /\ last' = Ran("removeStudent", s, fullName[s])
    /\ students' = removeStudent(students, fullName[s])
    /\ UNCHANGED <<fullName, assignmentStatuses, overallGrade, releases, log>>

RemoveStudentByName(name) ==
    /\ Called
    /\ last' = Ran("removeStudent", "", name)
    /\ students' = removeStudent(students, name)
    /\ UNCHANGED <<fullName, assignmentStatuses, overallGrade, releases, log>>

SendReminder(n) ==
    /\ Called
    /\ last' = Ran("sendReminder", "", n)
    /\ SetWorld(sendReminder(World, students, n))
    /\ UNCHANGED <<fullName, students, releases>>

\* the call: it queues its tasks and awaits them; with no task to wait for
\* it completes at once
ReleaseAssignmentsParallel(names) ==
    /\ Called
    /\ last' = Ran("releaseAssignmentsParallel", "", "")
    /\ LET r == NewRelease(names, students)
       IN releases' = IF TaskCount(r) = 0 THEN releases ELSE Append(releases, r)
    /\ UNCHANGED <<fullName, assignmentStatuses, overallGrade, students, log>>

\* the oldest queued release task runs; the call that queued it completes
\* (its await resumes) in the same turn when that was its last task
ReleaseTask ==
    /\ releases # <<>>
    /\ LET r == Head(releases)
       IN /\ last' = Ran("releaseTask", TaskStudent(r, r.ran), TaskName(r, r.ran))
          /\ SetWorld(updateAssignmentStatus(
                 World, TaskStudent(r, r.ran), TaskName(r, r.ran), Undefined))
          /\ releases' = IF r.ran + 1 = TaskCount(r) THEN Tail(releases)
                         ELSE <<[r EXCEPT !.ran = @ + 1]>> \o Tail(releases)
    /\ UNCHANGED <<fullName, students, budget, returned>>

GetAssignmentStatus(s, n) ==
    LET r == getAssignmentStatus(World, s, n)
    IN /\ Returns(Return("status", r.ret))
       /\ last' = Ran("getAssignmentStatus", s, n)
       /\ SetWorld(r.w)
       /\ UNCHANGED <<fullName, students, releases>>

GetGrade(s) ==
    LET r == getGrade(World, s)
    IN /\ Returns(Return("grade", r.ret))
       /\ last' = Ran("getGrade", s, "")
       /\ SetWorld(r.w)
       /\ UNCHANGED <<fullName, students, releases>>

FindOutstandingAssignments(n) ==
    /\ Returns(Return("names", findOutstandingAssignments(World, students, n)))
    /\ last' = Ran("findOutstandingAssignments", "", n)
    /\ UNCHANGED <<fullName, assignmentStatuses, overallGrade, students,
                   releases, log>>

\* findOutstandingAssignments() without a name
FindOutstandingAny ==
    /\ Returns(Return("names", findOutstandingAny(World, students)))
    /\ last' = Ran("findOutstandingAssignments", "", "")
    /\ UNCHANGED <<fullName, assignmentStatuses, overallGrade, students,
                   releases, log>>

\* a caller hands the assignment at index i of s to Observer.notify
ObserverNotify(s, i, isReminder) ==
    /\ Called
    /\ i \in 1..Len(assignmentStatuses[s])
    /\ last' = Ran(IF isReminder THEN "notifyReminder" ELSE "notify",
                   s, assignmentStatuses[s][i].assignmentName)
    /\ SetWorld(notify(World, s, i, isReminder))
    /\ UNCHANGED <<fullName, students, releases>>

Indexes == 1..Cardinality(Names)

\* what the timer queue may run next, for the students in S
Timers(S, grades) ==
    \/ \E s \in S, i \in Indexes : AutoSubmitFire(s, i)
    \/ \E s \in S, i \in Indexes, g \in grades : AutoGradeFire(s, i, g)

(***************************************************************************)
(* Spec: the whole class, every operation.                                 *)
(***************************************************************************)
ClassGrades == {Num(PassMark + 1), Undefined}

Next ==
    \/ \E s \in Students, n \in Names, g \in ClassGrades :
          UpdateAssignmentStatus(s, n, g)
    \/ \E s \in Students, n \in Names : StartWorking(s, n)
    \/ \E s \in Students, n \in Names : SubmitAssignment(s, n)
    \/ \E s \in Students : AddStudent(s)
    \/ \E s \in Students : RemoveStudent(s)
    \/ \E name \in FullNames : RemoveStudentByName(name)
    \/ \E n \in Names : SendReminder(n)
    \/ \E names \in NameLists : ReleaseAssignmentsParallel(names)
    \/ Timers(Students, {PassMark + 1})
    \/ ReleaseTask

Spec == Init /\ [][Next]_vars

\* the same, with every queued release task run eventually
FairSpec == Spec /\ WF_vars(ReleaseTask)

(***************************************************************************)
(* StudentSpec: one student outside any class, explored deeper.            *)
(***************************************************************************)
StudentInit ==
    /\ fullName = [s \in Students |-> "Ada"]
    /\ students = <<>>
    /\ budget = MaxCalls
    /\ Fresh

StudentGrades == {Num(x) : x \in GradeSamples} \cup {Undefined, NotANumber}

StudentNext ==
    \/ \E n \in Names, g \in StudentGrades : UpdateAssignmentStatus("s1", n, g)
    \/ \E n \in Names : StartWorking("s1", n)
    \/ \E n \in Names : SubmitAssignment("s1", n)
    \/ Timers({"s1"}, GradeSamples)

StudentSpec == StudentInit /\ [][StudentNext]_vars

(***************************************************************************)
(* StudentQuerySpec: one student, the mutators and the getters.            *)
(***************************************************************************)
StudentQueryInit ==
    /\ fullName = [s \in Students |-> "Ada"]
    /\ students = <<>>
    /\ budget = MaxQueryCalls
    /\ Fresh

StudentQueryNext ==
    \/ \E n \in Names, g \in StudentGrades : UpdateAssignmentStatus("s1", n, g)
    \/ \E n \in Names : StartWorking("s1", n)
    \/ \E n \in Names : SubmitAssignment("s1", n)
    \/ \E n \in Names : GetAssignmentStatus("s1", n)
    \/ GetGrade("s1")
    \/ Timers({"s1"}, GradeSamples)

StudentQuerySpec == StudentQueryInit /\ [][StudentQueryNext]_vars

(***************************************************************************)
(* ClassQuerySpec: a class under some roster, the students' mutators (an  *)
(* assignment is graded by its timer), the reminder and the queries for    *)
(* outstanding work.                                                       *)
(***************************************************************************)
ClassQueryInit ==
    /\ fullName \in {f \in [Students -> FullNames] : f["s1"] = "Ada"}
    /\ students \in Rosters
    /\ budget = MaxQueryCalls
    /\ Fresh

ClassQueryNext ==
    \/ \E s \in Students, n \in Names : UpdateAssignmentStatus(s, n, Undefined)
    \/ \E s \in Students, n \in Names : StartWorking(s, n)
    \/ \E s \in Students, n \in Names : SubmitAssignment(s, n)
    \/ \E n \in Names : SendReminder(n)
    \/ \E n \in Names : FindOutstandingAssignments(n)
    \/ FindOutstandingAny
    \/ Timers(Students, {PassMark + 1})

ClassQuerySpec == ClassQueryInit /\ [][ClassQueryNext]_vars

(***************************************************************************)
(* RemovalSpec: a class with both students enrolled; work, submission,     *)
(* removal, enrolment again and the timers.                                *)
(***************************************************************************)
RemovalInit ==
    /\ fullName \in {f \in [Students -> FullNames] : f["s1"] = "Ada"}
    /\ students = <<"s1", "s2">>
    /\ budget = MaxClassCalls
    /\ Fresh

RemovalNext ==
    \/ \E s \in Students, n \in Names : StartWorking(s, n)
    \/ \E s \in Students, n \in Names : SubmitAssignment(s, n)
    \/ \E s \in Students : AddStudent(s)
    \/ \E s \in Students : RemoveStudent(s)
    \/ \E name \in FullNames : RemoveStudentByName(name)
    \/ Timers(Students, {PassMark + 1})

RemovalSpec == RemovalInit /\ [][RemovalNext]_vars

(***************************************************************************)
(* NotifySpec: Observer.notify on its own, handed an assignment of every   *)
(* status the engine writes and of one it does not, with and without the   *)
(* reminder flag.                                                          *)
(***************************************************************************)
NotifyStatuses ==
    {"released", "working", "final reminder", "submitted", "Pass", "Fail", "late"}

NotifyInit ==
    /\ fullName = [s \in Students |-> "Ada"]
    /\ students = <<>>
    /\ \E st \in NotifyStatuses :
          assignmentStatuses =
              [s \in Students |->
                  IF s = "s1" THEN <<[NewAssignment("HW1") EXCEPT !.status = st]>>
                  ELSE <<>>]
    /\ overallGrade = [s \in Students |-> [sum |-> 0, n |-> 0]]
    /\ log = [s \in Students |-> [n \in Names |-> <<>>]]
    /\ releases = <<>>
    /\ last = Ran("", "", "")
    /\ returned = NoReturn
    /\ budget = MaxNotifyCalls

NotifyNext == \E isReminder \in BOOLEAN : ObserverNotify("s1", 1, isReminder)

NotifySpec == NotifyInit /\ [][NotifyNext]_vars

(***************************************************************************)
(* GradeSpec: one assignment of one student, every grade 0..100.           *)
(***************************************************************************)
GradeInit ==
    /\ fullName = [s \in Students |-> "Ada"]
    /\ students = <<>>
    /\ budget = MaxGradeCalls
    /\ Fresh

GradeNext ==
    \/ \E g \in AllGrades : UpdateAssignmentStatus("s1", "HW1", Num(g))
    \/ StartWorking("s1", "HW1")
    \/ SubmitAssignment("s1", "HW1")
    \/ Timers({"s1"}, AllGrades)

GradeSpec == GradeInit /\ [][GradeNext]_vars

(***************************************************************************)
(* ScenarioSpec: scenario A.  A fresh student, one startWorking call and   *)
(* no further call; the timers scheduled do fire.                          *)
(***************************************************************************)
ScenarioInit ==
    /\ fullName = [s \in Students |-> "Ada"]
    /\ students = <<>>
    /\ budget = 1
    /\ Fresh

ScenarioNext ==
    \/ \E n \in Names : StartWorking("s1", n)
    \/ Timers({"s1"}, AllGrades)

ScenarioSpec ==
    ScenarioInit /\ [][ScenarioNext]_vars /\ WF_vars(Timers({"s1"}, AllGrades))

(***************************************************************************)
(* What the claims are stated with.                                        *)
(***************************************************************************)
HasIn(asgs, s, n) == findAssignment(asgs[s], n) # 0
AsgIn(asgs, s, n) == asgs[s][findAssignment(asgs[s], n)]
Has(s, n) == HasIn(assignmentStatuses, s, n)
Asg(s, n) == AsgIn(assignmentStatuses, s, n)

\* every assignment object there is
Assignments ==
    {assignmentStatuses[s][i] : s \in Students, i \in Indexes}

StudentState == <<assignmentStatuses, overallGrade, log>>

(***************************************************************************)
(* C1: in every reachable state each assignment has a grade present if and *)
(* only if its status is Pass or Fail.                                     *)
(* The code lets startWorking (and a reminder) move a graded assignment    *)
(* back to working or submitted with its grade kept: the formula fails.    *)
(***************************************************************************)
C1_GradeIffPassFail ==
    \A s \in Students : \A i \in 1..Len(assignmentStatuses[s]) :
        LET a == assignmentStatuses[s][i]
        IN (a.grade # NoGrade) <=> (a.status \in {"Pass", "Fail"})

(***************************************************************************)
(* C2: pass/fail is consistent with the grade.  An assignment whose status *)
(* is Pass has a grade in 51..100, one whose status is Fail has a grade in *)
(* 0..50 (50 fails), for every grade 0..100 that updateAssignmentStatus is *)
(* given or the auto-grade timer draws.                                     *)
(***************************************************************************)
C2_PassFailMatchesGrade ==
    \A s \in Students : \A i \in 1..Len(assignmentStatuses[s]) :
        LET a == assignmentStatuses[s][i]
        IN /\ a.status = "Pass" => a.grade \in 51..100
           /\ a.status = "Fail" => a.grade \in 0..50

\* the boundary: a grade of 50, drawn by the auto-grade timer, has failed
C2_Witness ==
    /\ last.op = "autoGrade"
    /\ Has("s1", "HW1")
    /\ Asg("s1", "HW1").grade = 50
    /\ Asg("s1", "HW1").status = "Fail"

(***************************************************************************)
(* C3: submitAssignment(name) on an existing assignment whose status is    *)
(* submitted, Pass or Fail changes nothing: status, grade, graded flag,    *)
(* pending timers, overallGrade and the notifications written are as       *)
(* before.                                                                 *)
(***************************************************************************)
C3_SubmitDoneIsNoOp ==
    [][\A s \in Students, n \in Names :
          ( /\ last' = Ran("submitAssignment", s, n)
            /\ Has(s, n)
            /\ Asg(s, n).status \in {"submitted", "Pass", "Fail"} )
          => UNCHANGED StudentState]_vars

\* submitAssignment has just run on a graded assignment whose auto-submit
\* timer is still pending
C3_Witness ==
    /\ last.op = "submitAssignment"
    /\ Has(last.s, last.n)
    /\ Asg(last.s, last.n).status \in {"Pass", "Fail"}
    /\ Asg(last.s, last.n).workTimeoutId = "pending"

(***************************************************************************)
(* C4: scenario A.  For a fresh student startWorking(name) at once writes  *)
(* the notifications released, working; with no further call the status    *)
(* eventually becomes submitted and after that eventually Pass or Fail     *)
(* with a grade in 0..100 that matches it, and the notifications of the    *)
(* assignment are released, working, submitted, passed-or-failed, each     *)
(* once and in that order.                                                 *)
(***************************************************************************)
IsPrefix(p, q) == Len(p) <= Len(q) /\ \A k \in 1..Len(p) : p[k] = q[k]

ScenarioLogs ==
    {<<"released", "working", "submitted", m>> : m \in {"passed", "failed"}}

ScenarioGraded(n) ==
    /\ Has("s1", n)
    /\ LET a == Asg("s1", n)
       IN /\ a.status \in {"Pass", "Fail"}
          /\ a.grade \in 0..100
          /\ a.status = "Pass" <=> a.grade > 50
          /\ log["s1"][n] = <<"released", "working", "submitted",
                               IF a.status = "Pass" THEN "passed" ELSE "failed">>

C4_ScenarioA ==
    /\ [][\A n \in Names :
            last' = Ran("startWorking", "s1", n)
            => /\ log'["s1"][n] = <<"released", "working">>
               /\ AsgIn(assignmentStatuses', "s1", n).status = "working"]_vars
    /\ \A n \in Names :
           (last = Ran("startWorking", "s1", n))
             ~> (Has("s1", n) /\ Asg("s1", n).status = "submitted")
    /\ \A n \in Names :
           (Has("s1", n) /\ Asg("s1", n).status = "submitted")
             ~> ScenarioGraded(n)
    /\ [](\A n \in Names : \E q \in ScenarioLogs : IsPrefix(log["s1"][n], q))
    /\ [][\A n \in Names : IsPrefix(log["s1"][n], log'["s1"][n])]_vars

\* the scenario has ended with the highest grade drawn
C4_Witness ==
    /\ ScenarioGraded("HW1")
    /\ Asg("s1", "HW1").grade = 100
    /\ last = Ran("autoGrade", "s1", "HW1")

(***************************************************************************)
(* C5: sendReminder(name) touches only the roster students whose own       *)
(* assignment `name` is outstanding (released, working, final reminder)    *)
(* at the call: each of them gets the reminder notification and ends in    *)
(* submitted; every other student keeps its assignments, timers and        *)
(* notifications as they were.                                             *)
(* The code selects the students by full name, so a student who shares the *)
(* full name of an outstanding one is reminded too: the formula fails.     *)
(***************************************************************************)
OwnOutstanding(s, n) ==
    /\ Includes(students, s)
    /\ Has(s, n)
    /\ Asg(s, n).status \in Outstanding

C5_ReminderOnlyOutstanding ==
    [][\A n \in Names :
          last' = Ran("sendReminder", "", n)
          => \A s \in Students :
                IF OwnOutstanding(s, n)
                THEN /\ log'[s][n] = log[s][n] \o <<"final reminder", "submitted">>
                     /\ AsgIn(assignmentStatuses', s, n).status = "submitted"
                ELSE /\ assignmentStatuses'[s] = assignmentStatuses[s]
                     /\ log'[s] = log[s]
                     /\ overallGrade'[s] = overallGrade[s]]_vars

(***************************************************************************)
(* C6: releaseAssignmentsParallel(names) is a full join.  A call in flight *)
(* always completes eventually; it completes only in the turn of its last  *)
(* task, after every (student, name) task of the roster at call time has   *)
(* run; every task leaves its assignment present; and at completion each   *)
(* student of that roster has every named assignment.                      *)
(***************************************************************************)
C6_FullJoin ==
    /\ (releases # <<>>) ~> (releases = <<>>)
    /\ [][last'.op = "releaseTask"
            => HasIn(assignmentStatuses', last'.s, last'.n)]_vars
    /\ [][Len(releases') < Len(releases)
            => LET r == Head(releases)
               IN /\ last'.op = "releaseTask"
                  /\ r.ran + 1 = TaskCount(r)
                  /\ \A k \in 1..Len(r.roster), m \in 1..Len(r.names) :
                         HasIn(assignmentStatuses', r.roster[k], r.names[m])]_vars

\* scenario D on the two-student roster: the only call made was the release
\* of two names, its four tasks have run and the call has completed
C6_Witness ==
    /\ last.op = "releaseTask"
    /\ releases = <<>>
    /\ budget = MaxClassCalls - 1
    /\ Len(students) = 2
    /\ \A s \in Students :
           /\ Len(assignmentStatuses[s]) = 2
           /\ \A n \in Names : Has(s, n) /\ Asg(s, n).status = "released"

(***************************************************************************)
(* C7: an auto-submit timer that fires when the status of its assignment   *)
(* is submitted, Pass or Fail changes no state, writes no notification and *)
(* schedules no timer (the timer itself is spent).                         *)
(***************************************************************************)
C7_LateAutoSubmitIgnored ==
    [][\A s \in Students, n \in Names :
          ( /\ last' = Ran("autoSubmit", s, n)
            /\ Asg(s, n).status \in {"submitted", "Pass", "Fail"} )
          => /\ log' = log
             /\ overallGrade' = overallGrade
             /\ assignmentStatuses' =
                    [assignmentStatuses EXCEPT
                        ![s][findAssignment(assignmentStatuses[s], n)].workTimeoutId
                            = "fired"]]_vars

\* an auto-submit timer has just fired on an assignment graded meanwhile
C7_Witness ==
    /\ last.op = "autoSubmit"
    /\ Asg(last.s, last.n).status \in {"Pass", "Fail"}
    /\ Asg(last.s, last.n).workTimeoutId = "fired"

(***************************************************************************)
(* C8: an auto-grade timer that fires on an assignment already graded      *)
(* changes neither grade nor status and writes no notification; a timer    *)
(* that does grade finds the graded flag unset and sets it, and the flag   *)
(* is never unset, so auto-grading grades an assignment at most once       *)
(* however many auto-grade timers are pending.                             *)
(***************************************************************************)
C8_AutoGradeAtMostOnce ==
    /\ [][\A s \in Students, n \in Names :
             last' = Ran("autoGrade", s, n)
             => LET a == Asg(s, n)
                    b == AsgIn(assignmentStatuses', s, n)
                IN IF a.graded
                   THEN /\ b = [a EXCEPT !.gradeTimers = @ - 1]
                        /\ log' = log
                        /\ overallGrade' = overallGrade
                   ELSE b.graded]_vars
    /\ [][\A s \in Students : \A i \in 1..Len(assignmentStatuses[s]) :
             assignmentStatuses[s][i].graded
             => assignmentStatuses'[s][i].graded]_vars

\* an auto-grade timer has just fired on an assignment that was graded and
\* then worked on again: it is still working
C8_Witness ==
    /\ last.op = "autoGrade"
    /\ Asg(last.s, last.n).graded
    /\ Asg(last.s, last.n).status = "working"

(***************************************************************************)
(* C9: each assignment has at most one auto-transition timer (auto-submit  *)
(* or auto-grade) pending at any moment.                                   *)
(* submitAssignment stores no handle of its auto-grade timer, so nothing   *)
(* can cancel it: the formula fails.                                       *)
(***************************************************************************)
PendingTimers(a) == (IF a.workTimeoutId = "pending" THEN 1 ELSE 0) + a.gradeTimers

C9_OnePendingTimer ==
    \A s \in Students : \A i \in 1..Len(assignmentStatuses[s]) :
        PendingTimers(assignmentStatuses[s][i]) <= 1

(***************************************************************************)
(* C10: an auto-grade timer applies a grade only while the status of its   *)
(* assignment is submitted, never while it is released, working or final   *)
(* reminder.                                                               *)
(* The auto-grade timer of an earlier submission survives a later          *)
(* startWorking and grades the assignment while working: the formula       *)
(* fails.                                                                  *)
(***************************************************************************)
C10_GradeOnlyWhileSubmitted ==
    [][\A s \in Students, n \in Names :
          ( /\ last' = Ran("autoGrade", s, n)
            /\ AsgIn(assignmentStatuses', s, n).grade # Asg(s, n).grade )
          => Asg(s, n).status = "submitted"]_vars

(***************************************************************************)
(* C11: an assignment is graded at most once.  Once a grade is present, no *)
(* later updateAssignmentStatus(name, grade) call and no auto-grade timer  *)
(* changes it.                                                             *)
(* The auto-grade timer tests _graded, but updateAssignmentStatus calls    *)
(* setGrade whenever the grade is a number: the formula fails.             *)
(***************************************************************************)
C11_GradedAtMostOnce ==
    [][\A s \in Students : \A i \in 1..Len(assignmentStatuses[s]) :
          assignmentStatuses[s][i].grade # NoGrade
          => assignmentStatuses'[s][i].grade = assignmentStatuses[s][i].grade]_vars

(***************************************************************************)
(* C12: the stored overallGrade is, in every state, the mean of the grades *)
(* of exactly the assignments that have a grade (null when none has), that *)
(* is overallGrade times the number of graded assignments is the sum of    *)
(* their grades; and getGrade() returns that mean.                         *)
(***************************************************************************)
GradedIndexes(s) ==
    {i \in 1..Len(assignmentStatuses[s]) : assignmentStatuses[s][i].grade # NoGrade}

RECURSIVE GradeTotal(_, _)
GradeTotal(s, I) ==
    IF I = {} THEN 0
    ELSE LET i == CHOOSE j \in I : TRUE
         IN assignmentStatuses[s][i].grade + GradeTotal(s, I \ {i})

\* the fraction og is the mean of the graded assignments of s
IsMean(og, s) ==
    LET G == GradedIndexes(s)
    IN IF G = {} THEN og.n = 0
       ELSE og.n # 0 /\ og.sum * Cardinality(G) = GradeTotal(s, G) * og.n

C12_OverallGradeIsMean ==
    \A s \in Students :
        /\ IsMean(overallGrade[s], s)
        /\ last = Ran("getGrade", s, "")
           => returned.kind = "grade" /\ IsMean(returned.val, s)

\* getGrade has answered with one assignment graded and another not
C12_Witness ==
    /\ last = Ran("getGrade", "s1", "")
    /\ returned.kind = "grade"
    /\ Cardinality(GradedIndexes("s1")) = 1
    /\ Len(assignmentStatuses["s1"]) = 2

(***************************************************************************)
(* C13: findOutstandingAssignments(name) returns, in roster order, the     *)
(* full names of exactly the roster students that hold assignment `name`   *)
(* with status released, working or final reminder; without a name it      *)
(* returns the students holding at least one assignment in one of those    *)
(* statuses, so never a student without assignments; neither call changes  *)
(* any state.                                                              *)
(***************************************************************************)
HoldsOutstanding(s, n) ==
    \E i \in 1..Len(assignmentStatuses[s]) :
        /\ n # "" => assignmentStatuses[s][i].assignmentName = n
        /\ assignmentStatuses[s][i].status \in {"released", "working", "final reminder"}

OutstandingNames(n) ==
    LET sel == SelectSeq(students, LAMBDA s : HoldsOutstanding(s, n))
    IN [i \in 1..Len(sel) |-> fullName[sel[i]]]

C13_FindOutstanding ==
    [][last'.op = "findOutstandingAssignments"
       => /\ returned'.kind = "names"
          /\ returned'.val = OutstandingNames(last'.n)
          /\ UNCHANGED <<fullName, assignmentStatuses, overallGrade, students,
                         releases, log>>]_vars

\* a roster student holds HW1 submitted and the query for HW1 has left them out
C13_Witness ==
    /\ last = Ran("findOutstandingAssignments", "", "HW1")
    /\ returned.kind = "names"
    /\ \E s \in Students :
          /\ Includes(students, s)
          /\ Has(s, "HW1")
          /\ Asg(s, "HW1").status = "submitted"
          /\ \A i \in 1..Len(returned.val) : returned.val[i] # fullName[s]

\* the query without a name has answered with two students in roster order
C13_WitnessAny ==
    /\ last = Ran("findOutstandingAssignments", "", "")
    /\ returned.kind = "names"
    /\ Len(returned.val) = 2

(***************************************************************************)
(* C14: updateAssignmentStatus(name) with no grade, or with a grade that   *)
(* is not a number, only performs the lazy creation.  If the assignment    *)
(* does not exist it is created with status released and one released      *)
(* notification is emitted; if it exists, its status, grade, graded flag   *)
(* and pending timers and the student's overallGrade are unchanged and no  *)
(* notification is emitted.  The call never fails.                         *)
(***************************************************************************)
C14_UngradedUpdateOnlyCreates ==
    [][\A s \in Students, n \in Names, g \in {Undefined, NotANumber} :
          UpdateAssignmentStatus(s, n, g)
          => IF Has(s, n)
             THEN UNCHANGED StudentState
             ELSE /\ assignmentStatuses' =
                       [assignmentStatuses EXCEPT ![s] = Append(@, NewAssignment(n))]
                  /\ NewAssignment(n).status = "released"
                  /\ log' = [log EXCEPT ![s][n] = Append(@, "released")]
                  /\ overallGrade' = overallGrade]_vars

\* the call has found the assignment working with its timer pending, and
\* has left it so
C14_Witness ==
    /\ last.op = "updateAssignmentStatus"
    /\ Has(last.s, last.n)
    /\ Asg(last.s, last.n).status = "working"
    /\ Asg(last.s, last.n).workTimeoutId = "pending"
    /\ log[last.s][last.n] = <<"released", "working">>

(***************************************************************************)
(* C15: getAssignmentStatus(name) is read-only.  For a name the student    *)
(* does not hold it returns "Hasn't been assigned" and creates nothing;    *)
(* for a name the student holds it returns the current status; no          *)
(* assignment, notification, timer or overallGrade changes.                *)
(***************************************************************************)
C15_GetAssignmentStatusReadOnly ==
    [][\A s \in Students, n \in Names :
          last' = Ran("getAssignmentStatus", s, n)
          => /\ UNCHANGED StudentState
             /\ returned'.kind = "status"
             /\ returned'.val = IF \E i \in 1..Len(assignmentStatuses[s]) :
                                      assignmentStatuses[s][i].assignmentName = n
                                 THEN Asg(s, n).status
                                 ELSE "Hasn't been assigned"]_vars

\* the student holds one assignment, was asked for the other, and still
\* holds one
C15_Witness ==
    /\ last.op = "getAssignmentStatus"
    /\ returned.kind = "status"
    /\ returned.val = "Hasn't been assigned"
    /\ Len(assignmentStatuses[last.s]) = 1
    /\ ~Has(last.s, last.n)

\* the getter has answered with the status of an assignment that it holds
C15_WitnessKnown ==
    /\ last.op = "getAssignmentStatus"
    /\ returned.kind = "status"
    /\ returned.val = "submitted"

(***************************************************************************)
(* C16: the roster never holds the same student twice: adding a student    *)
(* that is present is a no-op that keeps the order.  After removeStudent,  *)
(* given a Student or a full name, no roster entry has that full name and  *)
(* the other entries keep their relative order.                            *)
(***************************************************************************)
Position(roster, s) == CHOOSE i \in 1..Len(roster) : roster[i] = s

C16_RosterIsASet ==
    /\ [](\A i, j \in 1..Len(students) : students[i] = students[j] => i = j)
    /\ [][\A s \in Students :
             last' = Ran("addStudent", s, "")
             => students' = IF \E i \in 1..Len(students) : students[i] = s
                            THEN students
                            ELSE students \o <<s>>]_vars
    /\ [][last'.op = "removeStudent"
           => /\ \A i \in 1..Len(students') : fullName[students'[i]] # last'.n
              /\ \A i \in 1..Len(students) :
                    fullName[students[i]] # last'.n
                    => \E j \in 1..Len(students') : students'[j] = students[i]
              /\ \A i, j \in 1..Len(students') :
                    /\ \E k \in 1..Len(students) : students[k] = students'[i]
                    /\ i < j => Position(students, students'[i])
                                  < Position(students, students'[j])]_vars

\* s1, first of a roster of two, has been added again by the one call made
C16_Witness ==
    /\ last = Ran("addStudent", "s1", "")
    /\ students = <<"s1", "s2">>
    /\ budget = MaxClassCalls - 1

\* a removal by name has left the one student of another name
C16_WitnessRemoved ==
    /\ last = Ran("removeStudent", "", "Ada")
    /\ students = <<"s2">>
    /\ budget = MaxClassCalls - 1

(***************************************************************************)
(* C17: removeStudent changes nothing but the roster.  The assignments,    *)
(* statuses, grades and pending timers of the removed student are as they  *)
(* were, and an auto-submit or auto-grade timer of a student fires with    *)
(* its usual effect whether or not the student is on the roster: the       *)
(* auto-submit timer of an outstanding assignment submits it and starts    *)
(* its auto-grade timer, the auto-grade timer of an ungraded assignment    *)
(* grades it.                                                              *)
(***************************************************************************)
C17_RemovalKeepsStudentState ==
    /\ [][last'.op = "removeStudent"
           => UNCHANGED <<fullName, assignmentStatuses, overallGrade, log,
                          releases>>]_vars
    /\ [][\A s \in Students, n \in Names :
             ( /\ last' = Ran("autoSubmit", s, n)
               /\ Asg(s, n).status \in {"released", "working", "final reminder"} )
             => /\ AsgIn(assignmentStatuses', s, n).status = "submitted"
                /\ AsgIn(assignmentStatuses', s, n).gradeTimers
                       = Asg(s, n).gradeTimers + 1]_vars
    /\ [][\A s \in Students, n \in Names :
             ( /\ last' = Ran("autoGrade", s, n)
               /\ ~Asg(s, n).graded )
             => /\ AsgIn(assignmentStatuses', s, n).graded
                /\ AsgIn(assignmentStatuses', s, n).status \in {"Pass", "Fail"}]_vars

\* s1, enrolled from the start, started working and was then removed: the
\* auto-submit timer is still pending
C17_Witness ==
    /\ last = Ran("removeStudent", "s1", "Ada")
    /\ budget = MaxClassCalls - 2
    /\ \A i \in 1..Len(students) : students[i] # "s1"
    /\ Has("s1", "HW1")
    /\ Asg("s1", "HW1").status = "working"
    /\ Asg("s1", "HW1").workTimeoutId = "pending"

\* the auto-submit timer of a student that is no longer enrolled has fired
C17_WitnessFired ==
    /\ last = Ran("autoSubmit", "s1", "HW1")
    /\ \A i \in 1..Len(students) : students[i] # "s1"
    /\ Asg("s1", "HW1").status = "submitted"

(***************************************************************************)
(* C18: Observer.notify selects its message by first match: the final      *)
(* reminder message whenever isReminder is true, whatever the status, or   *)
(* the status is final reminder; otherwise the released, working,          *)
(* submitted, passed or failed message of the status; otherwise the        *)
(* generic status-updated message.  It emits that one message and changes  *)
(* no student or assignment state.                                         *)
(***************************************************************************)
ExpectedMessage(status, isReminder) ==
    IF isReminder THEN "final reminder"
    ELSE CASE status = "final reminder" -> "final reminder"
           [] status = "released" -> "released"
           [] status = "working" -> "working"
           [] status = "submitted" -> "submitted"
           [] status = "Pass" -> "passed"
           [] status = "Fail" -> "failed"
           [] OTHER -> "status updated"

C18_NotifyPrecedence ==
    [][\A s \in Students, n \in Names :
          ( /\ last'.op \in {"notify", "notifyReminder"}
            /\ last'.s = s
            /\ last'.n = n )
          => /\ log' = [log EXCEPT ![s][n] =
                           Append(@, ExpectedMessage(Asg(s, n).status,
                                                     last'.op = "notifyReminder"))]
             /\ UNCHANGED <<fullName, assignmentStatuses, overallGrade, students,
                            releases>>]_vars

\* a reminder for a working assignment has been announced as final reminder
C18_Witness ==
    /\ last = Ran("notifyReminder", "s1", "HW1")
    /\ Asg("s1", "HW1").status = "working"
    /\ log["s1"]["HW1"][Len(log["s1"]["HW1"])] = "final reminder"

\* a status the engine does not write has been announced as status updated
C18_WitnessGeneric ==
    /\ last = Ran("notify", "s1", "HW1")
    /\ Asg("s1", "HW1").status = "late"
    /\ log["s1"]["HW1"][Len(log["s1"]["HW1"])] = "status updated"

(***************************************************************************)
(* C19: under every interleaving of mutator calls, release tasks and timer *)
(* callbacks, a release list that repeats a name included, a student never *)
(* holds two assignments of the same name, an assignment once created is   *)
(* never removed, and the released notification of the lazy creation is    *)
(* emitted exactly once per student and assignment name, before any other  *)
(* notification for that assignment.                                       *)
(***************************************************************************)
C19_CreatedOnce ==
    /\ [](\A s \in Students :
            /\ \A i, j \in 1..Len(assignmentStatuses[s]) :
                  assignmentStatuses[s][i].assignmentName
                      = assignmentStatuses[s][j].assignmentName
                  => i = j
            /\ \A n \in Names :
                  LET l == log[s][n]
                      held == \E i \in 1..Len(assignmentStatuses[s]) :
                                 assignmentStatuses[s][i].assignmentName = n
                  IN /\ held <=> l # <<>>
                     /\ l # <<>> => /\ l[1] = "released"
                                     /\ \A k \in 2..Len(l) : l[k] # "released")
    /\ [][\A s \in Students :
             /\ Len(assignmentStatuses'[s]) >= Len(assignmentStatuses[s])
             /\ \A i \in 1..Len(assignmentStatuses[s]) :
                   assignmentStatuses'[s][i].assignmentName
                       = assignmentStatuses[s][i].assignmentName]_vars

\* a release of HW1, HW1 to two students has run its third task: the first
\* student has been handed HW1 a second time and holds it once
C19_Witness ==
    /\ last.op = "releaseTask"
    /\ releases # <<>>
    /\ Head(releases).names = <<"HW1", "HW1">>
    /\ Head(releases).ran = Len(Head(releases).roster) + 1
    /\ Len(assignmentStatuses[last.s]) = 1
    /\ log[last.s]["HW1"] = <<"released">>

(***************************************************************************)
(* C20: once no further operation is invoked and the timers have fired, an *)
(* assignment does not remain working or submitted: it reaches Pass or     *)
(* Fail, also when it was graded before startWorking or a reminder was     *)
(* applied to it again.  So an assignment that is working or submitted     *)
(* always has a timer pending that will move it on.                        *)
(* The auto-grade callback returns at once when _graded is set, so an      *)
(* assignment graded before it was worked on again stays submitted with no *)
(* timer left: the formula fails.                                          *)
(***************************************************************************)
C20_NoStuckAssignment ==
    \A s \in Students : \A i \in 1..Len(assignmentStatuses[s]) :
        assignmentStatuses[s][i].status \in {"working", "submitted"}
        => PendingTimers(assignmentStatuses[s][i]) > 0

(***************************************************************************)
(* C21: immediately after sendReminder(name) returns,                      *)
(* findOutstandingAssignments(name) is empty: no roster student holds      *)
(* assignment `name` with status released, working or final reminder, and  *)
(* every roster student that was outstanding for `name` now holds it       *)
(* submitted with an auto-grade timer pending.                             *)
(***************************************************************************)
C21_ReminderClearsOutstanding ==
    /\ [][\A n \in Names :
             last' = Ran("sendReminder", "", n)
             => \A k \in 1..Len(students') :
                   LET s == students'[k]
                   IN /\ \A i \in 1..Len(assignmentStatuses'[s]) :
                            assignmentStatuses'[s][i].assignmentName = n
                            => assignmentStatuses'[s][i].status
                                  \notin {"released", "working", "final reminder"}
                      /\ HoldsOutstanding(s, n)
                         => /\ AsgIn(assignmentStatuses', s, n).status = "submitted"
                            /\ AsgIn(assignmentStatuses', s, n).gradeTimers > 0]_vars
    /\ [][\A n \in Names :
             ( /\ last = Ran("sendReminder", "", n)
               /\ last' = Ran("findOutstandingAssignments", "", n) )
             => returned' = Return("names", <<>>)]_vars

\* s1 and s2 were working on HW1, the reminder for HW1 was sent and both
\* hold it submitted, each with its auto-grade timer pending
C21_Witness ==
    /\ last = Ran("sendReminder", "", "HW1")
    /\ students \in {<<"s1", "s2">>, <<"s2", "s1">>}
    /\ \A s \in Students :
          /\ Has(s, "HW1")
          /\ log[s]["HW1"] = <<"released", "working", "final reminder", "submitted">>
          /\ Asg(s, "HW1").status = "submitted"
          /\ Asg(s, "HW1").gradeTimers = 1

\* the query for HW1 right after the reminder for HW1 has answered with no
\* name
C21_WitnessQuery ==
    /\ last = Ran("findOutstandingAssignments", "", "HW1")
    /\ returned = Return("names", <<>>)
    /\ budget = MaxQueryCalls - 3
    /\ \E s \in Students :
          /\ Includes(students, s)
          /\ Has(s, "HW1")
          /\ log[s]["HW1"] = <<"released", "working", "final reminder", "submitted">>
          /\ Asg(s, "HW1").status = "submitted"
          /\ Asg(s, "HW1").gradeTimers = 1

(***************************************************************************)
(* C22: the status final reminder is transient, it exists only inside      *)
(* sendReminder.  In every state between operations and timer callbacks    *)
(* the status of every assignment is one of released, working, submitted,  *)
(* Pass and Fail; so the test of the named branch of                       *)
(* findOutstandingAssignments (not submitted, Pass or Fail) and that of    *)
(* the unnamed branch (released, working or final reminder) agree on every *)
(* assignment, and an auto-submit timer never fires on an assignment whose *)
(* status is final reminder.                                               *)
(***************************************************************************)
C22_FinalReminderTransient ==
    /\ [](\A s \in Students : \A i \in 1..Len(assignmentStatuses[s]) :
            LET st == assignmentStatuses[s][i].status
            IN /\ st \in {"released", "working", "submitted", "Pass", "Fail"}
               /\ st \notin {"submitted", "Pass", "Fail"}
                  <=> st \in {"released", "working", "final reminder"})
    /\ [][\A s \in Students, n \in Names :
             last' = Ran("autoSubmit", s, n)
             => Asg(s, n).status # "final reminder"]_vars

\* s1 was working on HW1 and has been reminded: the final reminder was
\* announced and the assignment is submitted
C22_Witness ==
    /\ last = Ran("sendReminder", "", "HW1")
    /\ Includes(students, "s1")
    /\ Has("s1", "HW1")
    /\ log["s1"]["HW1"] = <<"released", "working", "final reminder", "submitted">>
    /\ Asg("s1", "HW1").status = "submitted"
    /\ Asg("s1", "HW1").workTimeoutId = "null"

====
